---- MODULE Spec2Model ----
(***************************************************************************)
(* Model of the two LibreNMS reconciliation scripts of abtools_librenms:   *)
(*   update_librenms.py            (Device-API  -> LibreNMS)               *)
(*   sync_elements_to_librenms.py  (Element-API -> LibreNMS)               *)
(*                                                                         *)
(* One run of a script is a straight-line batch job.  Every call to the    *)
(* LibreNMS manager, to the inventory manager or to utils is one step of   *)
(* the model, so that a call that raises can stop the run between any two  *)
(* calls.  LibreNMS itself (variable nms) is the environment the calls act *)
(* on.                                                                     *)
(*                                                                         *)
(* Python dicts are functions; a key is in the dict iff it is in DOMAIN.   *)
(* Dict iteration follows ascending device number: the device numbers are  *)
(* interchangeable and every device draws its data independently, so each  *)
(* relative order of the dict keys is one of the enumerated inputs.        *)
(*                                                                         *)
(* A compiled regular expression is represented by the set of strings on   *)
(* which its search() finds a match.                                       *)
(***************************************************************************)
EXTENDS Integers, Sequences, FiniteSets, TLC

\* ------------------------------------------------------------------ bounds
MaxDevices == 2     \* device / element names are 1..MaxDevices
MaxRegex == 2       \* longest roles_enabled / interfaces_disabled list
MaxRuns == 2        \* consecutive runs of a script

Names == 1..MaxDevices

UPDATE_LIBRENMS == "update_librenms"
SYNC_ELEMENTS == "sync_elements_to_librenms"

None == "<None>"    \* Python None where a string is expected

VARIABLES
    script,               \* which of the two scripts is running
    roles_enabled,        \* config.librenms_sync.roles_enabled, compiled
    interfaces_disabled,  \* config.librenms_sync.interfaces_disabled, compiled
    persistent,           \* persistent_devices / persistent_elements keys
    api,                  \* the Device-API / Element-API inventory
    nms,                  \* LibreNMS: device -> [present, ignore, ports]
    librenms_devices,     \* main's local: dict read from LibreNMS at start
    api_devices,          \* main's local: dict of devices to monitor
    create_in_librenms,   \* list of names to create
    delete_in_librenms,   \* list of names to delete
    librenms_interfaces,  \* sync_interfaces' local: ports of the device
    pc,                   \* position in the script
    i,                    \* cursor of the loop of main that is running
    j,                    \* cursor of the interface loop of sync_interfaces
    calls,                \* calls issued (and returned) in this run, in order
    tracebacks,           \* number of utils.send_traceback() calls in this run
    run                   \* number of the current run

vars == <<script, roles_enabled, interfaces_disabled, persistent, api, nms,
          librenms_devices, api_devices, create_in_librenms,
          delete_in_librenms, librenms_interfaces, pc, i, j, calls,
          tracebacks, run>>

config == <<script, roles_enabled, interfaces_disabled, persistent, api>>
locals == <<librenms_devices, api_devices, create_in_librenms,
            delete_in_librenms, librenms_interfaces, i, j>>

\* ----------------------------------------------------------------- helpers
\* The keys of a dict in iteration order.
Keys(f) ==
    LET S == DOMAIN f
    IN  [k \in 1..Cardinality(S) |->
            CHOOSE x \in S : Cardinality({y \in S : y < x}) = k - 1]

\* A call as it is logged: port is 0 and ignore is -1 where the call has none.
Call(op, dev, port, ign) == [op |-> op, dev |-> dev, port |-> port, ignore |-> ign]

CallsOf(op, dev) == {k \in 1..Len(calls) : calls[k].op = op /\ calls[k].dev = dev}
CallsOp(op) == {k \in 1..Len(calls) : calls[k].op = op}

\* regex.search(s): a match object (truthy) or None
Search(regex, s) == s \in regex

\* LibreNMS sets the ignore flag of one port.
SetPortIgnore(dev, port, ign) ==
    [nms EXCEPT ![dev].ports[port].ignore = ign]

\* LibreNMS sets the ignore flag of a device it knows; a device it does not
\* know is left as it is.
SetDeviceIgnore(dev, ign) ==
    IF nms[dev].present THEN [nms EXCEPT ![dev].ignore = ign] ELSE nms

\* LibreNMS adds a device: alerts are on (ignore = 0) for it and its ports.
AddDevice(dev) ==
    [nms EXCEPT ![dev] = [present |-> TRUE, ignore |-> 0,
                          ports |-> [k \in DOMAIN nms[dev].ports |->
                                       [nms[dev].ports[k] EXCEPT !.ignore = 0]]]]

RemoveDevice(dev) == [nms EXCEPT ![dev].present = FALSE]

\* The dict get_devices() / get_elements() returns.
LibrenmsInventory ==
    [d \in {x \in Names : nms[x].present} |-> [ignore |-> nms[d].ignore]]


\* ------------------------------------------ update_librenms: interface rules
\* The Device-API key a LibreNMS interface is found under: ifname, else
\* ifalias, else ifdescr, else None.
InterfaceKey(port, api_device_interfaces) ==
    IF port.ifname \in DOMAIN api_device_interfaces THEN port.ifname
    ELSE IF port.ifalias \in DOMAIN api_device_interfaces THEN port.ifalias
    ELSE IF port.ifdescr \in DOMAIN api_device_interfaces THEN port.ifdescr
    ELSE None

\* "if librenms_interface_name:" -- None and the empty string are falsy.
Truthy(name) == name # None /\ name # ""

\* Default for the interfaces of a device.
DefaultIgnore(api_device) == IF api_device.alarm_interfaces THEN 0 ELSE 1

\* The tag overrides, applied in the order the code applies them.
TagIgnore(tags, default) ==
    LET afterUplink == IF "uplink" \in tags THEN 0 ELSE default
        afterDisable == IF "librenms_alarm_disable" \in tags THEN 1 ELSE afterUplink
        afterEnable == IF "librenms_alarm_enable" \in tags THEN 0 ELSE afterDisable
    IN  afterEnable

\* The role allow-list: any roles_enabled regex that matches sets ignore = 0.
RoleIgnore(api_device_interface, before) ==
    IF /\ api_device_interface.has_role
       /\ \E k \in 1..Len(roles_enabled) :
              Search(roles_enabled[k], api_device_interface.role)
    THEN 0 ELSE before

\* Variant: the deny-list written as sync_elements_to_librenms writes its
\* allow-list, so that every regex has to match.
DenyIgnoreEvery(name, before) ==
    IF /\ Len(interfaces_disabled) > 0
       /\ \A k \in 1..Len(interfaces_disabled) : Search(interfaces_disabled[k], name)
    THEN 1 ELSE before

\* The interface deny-list: any interfaces_disabled regex that matches the
\* name the interface was found under sets ignore = 1.
DenyIgnore(name, before) ==
    IF \E k \in 1..Len(interfaces_disabled) : Search(interfaces_disabled[k], name)
    THEN 1 ELSE before

\* The ignore flag sync_interfaces computes for one LibreNMS interface.
ComputeIgnore(port, api_device) ==
    LET name == InterfaceKey(port, api_device.interfaces)
        default == DefaultIgnore(api_device)
    IN  IF Truthy(name)
        THEN DenyIgnore(name,
                 RoleIgnore(api_device.interfaces[name],
                     TagIgnore(api_device.interfaces[name].tags, default)))
        ELSE default

\* ------------------------------- sync_elements_to_librenms: interface rules
\* roles_enabled as the code applies it: every regex that does NOT match the
\* role sets ignore = 1.
ElementRoleIgnore(element_interface, before) ==
    IF /\ element_interface.has_role
       /\ \E k \in 1..Len(roles_enabled) :
              ~Search(roles_enabled[k], element_interface.role)
    THEN 1 ELSE before

\* The ignore flag sync_interfaces computes for the interface called name.
ElementComputeIgnore(name, element_intf) ==
    IF name \in DOMAIN element_intf
    THEN DenyIgnore(name, ElementRoleIgnore(element_intf[name], 0))
    ELSE 0

\* ------------------------------------------------ update_librenms: the diff
\* Variant: disabled devices are created too.
ShouldCreateDisabled(name) ==
    /\ api_devices[name].monitor_librenms
    /\ name \notin DOMAIN librenms_devices

ShouldCreate(name) ==
    /\ api_devices[name].enabled
    /\ api_devices[name].monitor_librenms
    /\ name \notin DOMAIN librenms_devices

\* Variant: persistent_devices is not consulted.
ShouldDeleteNotPersistent(name) ==
    \/ name \notin DOMAIN api_devices
    \/ ~api_devices[name].enabled

ShouldDelete(name) ==
    /\ name \notin persistent
    /\ \/ name \notin DOMAIN api_devices
       \/ ~api_devices[name].enabled

\* Variant: the ignore flag compared as if it were the enabled flag.
NeedsUpdateSameSense(librenms_device, api_device) ==
    (librenms_device.ignore # 0) # api_device.enabled

\* librenms_enabled != api_enabled
NeedsUpdate(librenms_device, api_device) ==
    (librenms_device.ignore = 0) # api_device.enabled

\* data.ignore
NewIgnore(api_device) == IF api_device.enabled THEN 0 ELSE 1

\* -------------------------------------- sync_elements_to_librenms: the diff
\* Elements to monitor: monitor_librenms missing or not False.
Monitored(element) == ~(element.has_monitor /\ element.monitor_librenms = FALSE)

ElementsToCreate == DOMAIN api_devices \ DOMAIN librenms_devices

\* Variant: persistent_elements is not subtracted.
ElementsToDeleteNotPersistent == DOMAIN librenms_devices \ DOMAIN api_devices

ElementsToDelete == (DOMAIN librenms_devices \ DOMAIN api_devices) \ persistent

ElementNeedsUpdate(librenms_element, api_element) ==
    (librenms_element.ignore = 0) # api_element.active

ElementNewIgnore(api_element) == IF api_element.active THEN 0 ELSE 1

\* A set as a list, in the order the set is iterated.
SetToList(S) == Keys([x \in S |-> TRUE])


\* ------------------------------------------------ update_librenms: main()
IsUpdate == script = UPDATE_LIBRENMS
IsElements == script = SYNC_ELEMENTS

\* The device / element the update loop is at.
Cur == Keys(librenms_devices)[i]
InUpdateLoop == pc = "update" /\ i <= Len(Keys(librenms_devices))

\* librenms_mgr.get_devices()
GetDevices ==
    /\ IsUpdate /\ pc = "get_devices"
    /\ librenms_devices' = LibrenmsInventory
    /\ calls' = Append(calls, Call("get_devices", 0, 0, -1))
    /\ pc' = "api_get"
    /\ UNCHANGED <<config, nms, api_devices, create_in_librenms,
                   delete_in_librenms, librenms_interfaces, i, j, tracebacks, run>>

\* device_mgr.get_devices()
ApiGetDevices ==
    /\ IsUpdate /\ pc = "api_get"
    /\ api_devices' = api
    /\ calls' = Append(calls, Call("api_get_devices", 0, 0, -1))
    /\ pc' = "write_hosts"
    /\ UNCHANGED <<config, nms, librenms_devices, create_in_librenms,
                   delete_in_librenms, librenms_interfaces, i, j, tracebacks, run>>

\* utils.write_etc_hosts_file(...), in both scripts
WriteEtcHosts ==
    /\ pc = "write_hosts"
    /\ calls' = Append(calls, Call("write_etc_hosts_file", 0, 0, -1))
    /\ pc' = "check"
    /\ UNCHANGED <<config, nms, locals, tracebacks, run>>

\* "Checking": the two lists are built
Check ==
    /\ IsUpdate /\ pc = "check"
    /\ create_in_librenms' = SelectSeq(Keys(api_devices), ShouldCreate)
    /\ delete_in_librenms' = SelectSeq(Keys(librenms_devices), ShouldDelete)
    /\ pc' = "create"
    /\ i' = 1
    /\ UNCHANGED <<config, nms, librenms_devices, api_devices,
                   librenms_interfaces, j, calls, tracebacks, run>>

\* librenms_mgr.create_device(name=name, force_add=1)
CreateDevice ==
    /\ IsUpdate /\ pc = "create" /\ i <= Len(create_in_librenms)
    /\ nms' = AddDevice(create_in_librenms[i])
    /\ calls' = Append(calls, Call("create_device", create_in_librenms[i], 0, -1))
    /\ i' = i + 1
    /\ UNCHANGED <<config, librenms_devices, api_devices, create_in_librenms,
                   delete_in_librenms, librenms_interfaces, pc, j, tracebacks, run>>

\* the create loop is over (or the list was empty: "None")
CreateDone ==
    /\ IsUpdate /\ pc = "create" /\ i > Len(create_in_librenms)
    /\ pc' = "delete"
    /\ i' = 1
    /\ UNCHANGED <<config, nms, librenms_devices, api_devices, create_in_librenms,
                   delete_in_librenms, librenms_interfaces, j, calls, tracebacks, run>>

\* librenms_mgr.delete_device(name=name)
DeleteDevice ==
    /\ IsUpdate /\ pc = "delete" /\ i <= Len(delete_in_librenms)
    /\ nms' = RemoveDevice(delete_in_librenms[i])
    /\ calls' = Append(calls, Call("delete_device", delete_in_librenms[i], 0, -1))
    /\ i' = i + 1
    /\ UNCHANGED <<config, librenms_devices, api_devices, create_in_librenms,
                   delete_in_librenms, librenms_interfaces, pc, j, tracebacks, run>>

DeleteDone ==
    /\ IsUpdate /\ pc = "delete" /\ i > Len(delete_in_librenms)
    /\ pc' = "load"
    /\ UNCHANGED <<config, nms, locals, calls, tracebacks, run>>

\* "if create_in_librenms or delete_in_librenms:"
MustReload == create_in_librenms # <<>> \/ delete_in_librenms # <<>>

\* librenms_mgr.load_devices(): the manager reloads its list.  What it
\* returns is dropped, and the name librenms_devices is not bound again: the
\* update loop runs over the dict read at the start.
LoadDevices ==
    /\ IsUpdate /\ pc = "load" /\ MustReload
    /\ calls' = Append(calls, Call("load_devices", 0, 0, -1))
    /\ pc' = "update"
    /\ i' = 1
    /\ UNCHANGED <<config, nms, librenms_devices, api_devices, create_in_librenms,
                   delete_in_librenms, librenms_interfaces, j, tracebacks, run>>

NoLoadDevices ==
    /\ IsUpdate /\ pc = "load" /\ ~MustReload
    /\ pc' = "update"
    /\ i' = 1
    /\ UNCHANGED <<config, nms, librenms_devices, api_devices, create_in_librenms,
                   delete_in_librenms, librenms_interfaces, j, calls, tracebacks, run>>

\* "Ignoring %s, not in Device-API"
UpdateIgnoring ==
    /\ IsUpdate /\ InUpdateLoop
    /\ Cur \notin DOMAIN api_devices
    /\ i' = i + 1
    /\ UNCHANGED <<config, nms, librenms_devices, api_devices, create_in_librenms,
                   delete_in_librenms, librenms_interfaces, pc, j, calls,
                   tracebacks, run>>

DeviceDiffers ==
    /\ IsUpdate /\ InUpdateLoop
    /\ Cur \in DOMAIN api_devices
    /\ NeedsUpdate(librenms_devices[Cur], api_devices[Cur])

\* librenms_mgr.update_device(name, data); api_device is a dict with keys, so
\* "if api_device:" holds
UpdateDevice ==
    /\ DeviceDiffers
    /\ nms' = SetDeviceIgnore(Cur, NewIgnore(api_devices[Cur]))
    /\ calls' = Append(calls, Call("update_device", Cur, 0, NewIgnore(api_devices[Cur])))
    /\ pc' = "get_interfaces"
    /\ UNCHANGED <<config, locals, tracebacks, run>>

\* len(data) == 0: no update_device
UpdateDeviceUnchanged ==
    /\ IsUpdate /\ InUpdateLoop
    /\ Cur \in DOMAIN api_devices
    /\ ~NeedsUpdate(librenms_devices[Cur], api_devices[Cur])
    /\ pc' = "get_interfaces"
    /\ UNCHANGED <<config, nms, locals, calls, tracebacks, run>>

\* sync_interfaces: librenms_mgr.get_device_interfaces(name) returns the
\* ports of the device
GetDeviceInterfaces ==
    /\ IsUpdate /\ pc = "get_interfaces"
    /\ nms[Cur].present
    /\ librenms_interfaces' = nms[Cur].ports
    /\ calls' = Append(calls, Call("get_device_interfaces", Cur, 0, -1))
    /\ pc' = "interfaces"
    /\ j' = 1
    /\ UNCHANGED <<config, nms, librenms_devices, api_devices, create_in_librenms,
                   delete_in_librenms, i, tracebacks, run>>

\* sync_interfaces: get_device_interfaces returns None ("No interfaces in
\* Librenms found"): always so for a device LibreNMS does not hold, and
\* whenever else the manager chooses to
GetDeviceInterfacesNone ==
    /\ IsUpdate /\ pc = "get_interfaces"
    /\ calls' = Append(calls, Call("get_device_interfaces", Cur, 0, -1))
    /\ pc' = "update"
    /\ i' = i + 1
    /\ UNCHANGED <<config, nms, librenms_devices, api_devices, create_in_librenms,
                   delete_in_librenms, librenms_interfaces, j, tracebacks, run>>

InInterfaceLoop == pc = "interfaces" /\ j <= Len(librenms_interfaces)

InterfaceDiffers ==
    /\ IsUpdate /\ InInterfaceLoop
    /\ librenms_interfaces[j].ignore # ComputeIgnore(librenms_interfaces[j], api_devices[Cur])

\* sync_interfaces: librenms_mgr.update_device_interface(port_id, data)
UpdateDeviceInterface ==
    /\ InterfaceDiffers
    /\ LET ignore == ComputeIgnore(librenms_interfaces[j], api_devices[Cur])
       IN  /\ nms' = SetPortIgnore(Cur, j, ignore)
           /\ calls' = Append(calls, Call("update_device_interface", Cur, j, ignore))
    /\ j' = j + 1
    /\ UNCHANGED <<config, librenms_devices, api_devices, create_in_librenms,
                   delete_in_librenms, librenms_interfaces, pc, i, tracebacks, run>>

\* sync_interfaces: the interface already has the computed flag
InterfaceUnchanged ==
    /\ IsUpdate /\ InInterfaceLoop
    /\ librenms_interfaces[j].ignore = ComputeIgnore(librenms_interfaces[j], api_devices[Cur])
    /\ j' = j + 1
    /\ UNCHANGED <<config, nms, librenms_devices, api_devices, create_in_librenms,
                   delete_in_librenms, librenms_interfaces, pc, i, calls,
                   tracebacks, run>>

\* sync_interfaces returns to the update loop of main(), in both scripts
SyncInterfacesReturn ==
    /\ pc = "interfaces" /\ j > Len(librenms_interfaces)
    /\ pc' = "update"
    /\ i' = i + 1
    /\ UNCHANGED <<config, nms, librenms_devices, api_devices, create_in_librenms,
                   delete_in_librenms, librenms_interfaces, j, calls, tracebacks, run>>

\* main() returns, in both scripts
MainReturns ==
    /\ pc = "update" /\ i > Len(Keys(librenms_devices))
    /\ pc' = "done"
    /\ UNCHANGED <<config, nms, locals, calls, tracebacks, run>>


\* ------------------------------------- sync_elements_to_librenms: main()
\* librenms_mgr.get_elements()
GetElements ==
    /\ IsElements /\ pc = "get_devices"
    /\ librenms_devices' = LibrenmsInventory
    /\ calls' = Append(calls, Call("get_elements", 0, 0, -1))
    /\ pc' = "api_get"
    /\ UNCHANGED <<config, nms, api_devices, create_in_librenms,
                   delete_in_librenms, librenms_interfaces, i, j, tracebacks, run>>

\* elements_mgr.get_elements(), then "Checking what elements to monitor":
\* api_elements keeps the elements whose monitor_librenms is not False
ApiGetElements ==
    /\ IsElements /\ pc = "api_get"
    /\ api_devices' = [h \in {x \in DOMAIN api : Monitored(api[x])} |-> api[h]]
    /\ calls' = Append(calls, Call("api_get_elements", 0, 0, -1))
    /\ pc' = "write_hosts"
    /\ UNCHANGED <<config, nms, librenms_devices, create_in_librenms,
                   delete_in_librenms, librenms_interfaces, i, j, tracebacks, run>>

\* "Ok, start to compare": the two set differences
CheckElements ==
    /\ IsElements /\ pc = "check"
    /\ create_in_librenms' = SetToList(ElementsToCreate)
    /\ delete_in_librenms' = SetToList(ElementsToDelete)
    /\ pc' = "create"
    /\ i' = 1
    /\ UNCHANGED <<config, nms, librenms_devices, api_devices,
                   librenms_interfaces, j, calls, tracebacks, run>>

\* librenms_mgr.create_element(hostname=hostname, force_add=1)
CreateElement ==
    /\ IsElements /\ pc = "create" /\ i <= Len(create_in_librenms)
    /\ nms' = AddDevice(create_in_librenms[i])
    /\ calls' = Append(calls, Call("create_element", create_in_librenms[i], 0, -1))
    /\ i' = i + 1
    /\ UNCHANGED <<config, librenms_devices, api_devices, create_in_librenms,
                   delete_in_librenms, librenms_interfaces, pc, j, tracebacks, run>>

CreateElementsDone ==
    /\ IsElements /\ pc = "create" /\ i > Len(create_in_librenms)
    /\ pc' = "delete"
    /\ i' = 1
    /\ UNCHANGED <<config, nms, librenms_devices, api_devices, create_in_librenms,
                   delete_in_librenms, librenms_interfaces, j, calls, tracebacks, run>>

\* librenms_mgr.delete_element(hostname=hostname)
DeleteElement ==
    /\ IsElements /\ pc = "delete" /\ i <= Len(delete_in_librenms)
    /\ nms' = RemoveDevice(delete_in_librenms[i])
    /\ calls' = Append(calls, Call("delete_element", delete_in_librenms[i], 0, -1))
    /\ i' = i + 1
    /\ UNCHANGED <<config, librenms_devices, api_devices, create_in_librenms,
                   delete_in_librenms, librenms_interfaces, pc, j, tracebacks, run>>

DeleteElementsDone ==
    /\ IsElements /\ pc = "delete" /\ i > Len(delete_in_librenms)
    /\ pc' = "update"
    /\ i' = 1
    /\ UNCHANGED <<config, nms, librenms_devices, api_devices, create_in_librenms,
                   delete_in_librenms, librenms_interfaces, j, calls, tracebacks, run>>

\* "Ignoring %s"
ElementIgnoring ==
    /\ IsElements /\ InUpdateLoop
    /\ Cur \notin DOMAIN api_devices
    /\ i' = i + 1
    /\ UNCHANGED <<config, nms, librenms_devices, api_devices, create_in_librenms,
                   delete_in_librenms, librenms_interfaces, pc, j, calls,
                   tracebacks, run>>

ElementDiffers ==
    /\ IsElements /\ InUpdateLoop
    /\ Cur \in DOMAIN api_devices
    /\ ElementNeedsUpdate(librenms_devices[Cur], api_devices[Cur])

\* librenms_mgr.update_element(hostname, data)
UpdateElement ==
    /\ ElementDiffers
    /\ nms' = SetDeviceIgnore(Cur, ElementNewIgnore(api_devices[Cur]))
    /\ calls' = Append(calls, Call("update_element", Cur, 0,
                                   ElementNewIgnore(api_devices[Cur])))
    /\ pc' = "get_interfaces"
    /\ UNCHANGED <<config, locals, tracebacks, run>>

UpdateElementUnchanged ==
    /\ IsElements /\ InUpdateLoop
    /\ Cur \in DOMAIN api_devices
    /\ ~ElementNeedsUpdate(librenms_devices[Cur], api_devices[Cur])
    /\ pc' = "get_interfaces"
    /\ UNCHANGED <<config, nms, locals, calls, tracebacks, run>>

\* "if 'interfaces' in api_element:" is false: no sync_interfaces
ElementNoInterfaces ==
    /\ IsElements /\ pc = "get_interfaces"
    /\ ~api_devices[Cur].has_interfaces
    /\ pc' = "update"
    /\ i' = i + 1
    /\ UNCHANGED <<config, nms, librenms_devices, api_devices, create_in_librenms,
                   delete_in_librenms, librenms_interfaces, j, calls, tracebacks, run>>

\* sync_interfaces: librenms_mgr.get_element_interfaces(hostname); main()
\* calls it for hostnames of api_elements only, so "hostname missing" is
\* never taken
GetElementInterfaces ==
    /\ IsElements /\ pc = "get_interfaces"
    /\ api_devices[Cur].has_interfaces
    /\ nms[Cur].present
    /\ librenms_interfaces' = nms[Cur].ports
    /\ calls' = Append(calls, Call("get_element_interfaces", Cur, 0, -1))
    /\ pc' = "interfaces"
    /\ j' = 1
    /\ UNCHANGED <<config, nms, librenms_devices, api_devices, create_in_librenms,
                   delete_in_librenms, i, tracebacks, run>>

\* sync_interfaces: get_element_interfaces returns None
GetElementInterfacesNone ==
    /\ IsElements /\ pc = "get_interfaces"
    /\ api_devices[Cur].has_interfaces
    /\ calls' = Append(calls, Call("get_element_interfaces", Cur, 0, -1))
    /\ pc' = "update"
    /\ i' = i + 1
    /\ UNCHANGED <<config, nms, librenms_devices, api_devices, create_in_librenms,
                   delete_in_librenms, librenms_interfaces, j, tracebacks, run>>

InterfaceDiffersElement ==
    /\ IsElements /\ InInterfaceLoop
    /\ librenms_interfaces[j].ignore #
           ElementComputeIgnore(librenms_interfaces[j].ifname, api_devices[Cur].interfaces)

\* sync_interfaces: librenms_mgr.update_element_interface(port_id, data)
UpdateElementInterface ==
    /\ InterfaceDiffersElement
    /\ LET ignore == ElementComputeIgnore(librenms_interfaces[j].ifname,
                                          api_devices[Cur].interfaces)
       IN  /\ nms' = SetPortIgnore(Cur, j, ignore)
           /\ calls' = Append(calls, Call("update_element_interface", Cur, j, ignore))
    /\ j' = j + 1
    /\ UNCHANGED <<config, librenms_devices, api_devices, create_in_librenms,
                   delete_in_librenms, librenms_interfaces, pc, i, tracebacks, run>>

ElementInterfaceUnchanged ==
    /\ IsElements /\ InInterfaceLoop
    /\ librenms_interfaces[j].ignore =
           ElementComputeIgnore(librenms_interfaces[j].ifname, api_devices[Cur].interfaces)
    /\ j' = j + 1
    /\ UNCHANGED <<config, nms, librenms_devices, api_devices, create_in_librenms,
                   delete_in_librenms, librenms_interfaces, pc, i, calls,
                   tracebacks, run>>

\* ----------------------------------------------- the __main__ guard, reruns
\* main() is about to issue a call to a manager or to utils
AtCall ==
    \/ pc \in {"get_devices", "api_get", "write_hosts"}
    \/ pc \in {"create"} /\ i <= Len(create_in_librenms)
    \/ pc \in {"delete"} /\ i <= Len(delete_in_librenms)
    \/ pc = "load" /\ MustReload
    \/ DeviceDiffers
    \/ ElementDiffers
    \/ pc = "get_interfaces" /\ IsUpdate
    \/ pc = "get_interfaces" /\ IsElements /\ api_devices[Cur].has_interfaces
    \/ InterfaceDiffers
    \/ InterfaceDiffersElement

\* Variant: no except clause, the script dies with the exception.
RaiseUncaught ==
    /\ AtCall
    /\ pc' = "exited"
    /\ UNCHANGED <<config, nms, locals, calls, tracebacks, run>>

\* the call raises: control leaves main() for the except clause
Raise ==
    /\ AtCall
    /\ pc' = "failed"
    /\ UNCHANGED <<config, nms, locals, calls, tracebacks, run>>

\* "except: utils.send_traceback()", then the script ends
SendTraceback ==
    /\ pc = "failed"
    /\ tracebacks' = tracebacks + 1
    /\ pc' = "exited"
    /\ UNCHANGED <<config, nms, locals, calls, run>>

\* The script is started again after a run that returned from main():
\* a new process, the same configuration and inventory, LibreNMS as it is.
Rerun ==
    /\ pc = "done" /\ run < MaxRuns
    /\ run' = run + 1
    /\ pc' = "get_devices"
    /\ librenms_devices' = <<>>
    /\ api_devices' = <<>>
    /\ create_in_librenms' = <<>>
    /\ delete_in_librenms' = <<>>
    /\ librenms_interfaces' = <<>>
    /\ i' = 1
    /\ j' = 1
    /\ calls' = <<>>
    /\ UNCHANGED <<config, nms, tracebacks>>


\* ------------------------------------------------------------------ inputs
BIT == {0, 1}

NoInterfaces == [x \in {} |-> 0]    \* the empty dict

\* The port the runs of main() are checked with.
Port0(ign) == [ifname |-> "eth0", ifalias |-> "", ifdescr |-> "eth0", ignore |-> ign]

\* What the inventories hold about one device, for update_librenms.  A field
\* that no run reads for such a device has one value only.
AllDeviceProfiles ==
    {p \in [in_nms : BOOLEAN, ignore : BIT, has_port : BOOLEAN,
            in_api : BOOLEAN, enabled : BOOLEAN, monitor_librenms : BOOLEAN,
            alarm_interfaces : BOOLEAN, persistent : BOOLEAN] :
        /\ ~p.in_nms => p.ignore = 0
        /\ (~p.in_nms /\ p.in_api) => ~p.persistent
        /\ ~p.in_api => ~p.enabled /\ ~p.monitor_librenms /\ ~p.alarm_interfaces
                        /\ ~p.has_port /\ p.ignore = 0
        /\ ~p.has_port => ~p.alarm_interfaces
        /\ (p.in_api /\ ~p.in_nms /\ ~(p.enabled /\ p.monitor_librenms)) => ~p.has_port
        /\ (p.in_api /\ p.in_nms /\ ~p.monitor_librenms) => ~p.has_port
        /\ (p.in_api /\ p.in_nms /\ p.enabled) => ~p.persistent
        /\ (p.in_api /\ p.in_nms /\ ~p.enabled /\ ~p.persistent) => ~p.has_port}

\* One run never reads the ports of a device LibreNMS did not hold at start.
DeviceProfiles == {p \in AllDeviceProfiles : ~p.in_nms => ~p.has_port}

\* The same for sync_elements_to_librenms.
ElementProfiles ==
    {p \in [in_nms : BOOLEAN, ignore : BIT, has_port : BOOLEAN, port_ignore : BIT,
            in_api : BOOLEAN, active : BOOLEAN, has_monitor : BOOLEAN,
            monitor_librenms : BOOLEAN, has_interfaces : BOOLEAN,
            persistent : BOOLEAN] :
        /\ ~p.in_nms => p.ignore = 0 /\ ~p.has_port
        /\ (~p.in_nms /\ p.in_api) => ~p.persistent
        /\ ~p.in_api => ~p.active /\ ~p.has_monitor /\ ~p.has_interfaces
                        /\ ~p.has_port /\ p.ignore = 0
        /\ ~p.has_monitor => ~p.monitor_librenms
        /\ ~p.has_interfaces => ~p.has_port
        /\ ~p.has_port => p.port_ignore = 0
        /\ (p.in_api /\ ~p.in_nms) => ~p.active /\ ~p.has_interfaces
        /\ (p.in_api /\ p.has_monitor /\ ~p.monitor_librenms) =>
               ~p.active /\ ~p.has_interfaces /\ p.ignore = 0
        /\ (p.in_api /\ p.has_monitor /\ p.monitor_librenms) => ~p.has_port
        /\ (p.in_api /\ Monitored(p)) => ~p.persistent}

NmsOf(prof) ==
    [d \in Names |->
        [present |-> prof[d].in_nms, ignore |-> prof[d].ignore,
         ports |-> IF prof[d].has_port
                   THEN <<Port0(IF IsElements THEN prof[d].port_ignore ELSE 0)>>
                   ELSE <<>>]]

DeviceApiOf(prof) ==
    [d \in {x \in Names : prof[x].in_api} |->
        [enabled |-> prof[d].enabled,
         monitor_librenms |-> prof[d].monitor_librenms,
         alarm_interfaces |-> prof[d].alarm_interfaces,
         interfaces |-> NoInterfaces]]

ElementApiOf(prof) ==
    [d \in {x \in Names : prof[x].in_api} |->
        [active |-> prof[d].active,
         has_monitor |-> prof[d].has_monitor,
         monitor_librenms |-> prof[d].monitor_librenms,
         has_interfaces |-> prof[d].has_interfaces,
         interfaces |-> NoInterfaces]]

\* The state in which a script starts.
Start ==
    /\ librenms_devices = <<>>
    /\ api_devices = <<>>
    /\ create_in_librenms = <<>>
    /\ delete_in_librenms = <<>>
    /\ librenms_interfaces = <<>>
    /\ pc = "get_devices"
    /\ i = 1
    /\ j = 1
    /\ calls = <<>>
    /\ tracebacks = 0
    /\ run = 1

InitUpdateWith(profiles) ==
    /\ script = UPDATE_LIBRENMS
    /\ roles_enabled = <<>>
    /\ interfaces_disabled = <<>>
    /\ \E prof \in [Names -> profiles] :
          /\ nms = NmsOf(prof)
          /\ api = DeviceApiOf(prof)
          /\ persistent = {d \in Names : prof[d].persistent}
    /\ Start

InitUpdate == InitUpdateWith(DeviceProfiles)

InitElements ==
    /\ script = SYNC_ELEMENTS
    /\ roles_enabled = <<>>
    /\ interfaces_disabled = <<>>
    /\ \E prof \in [Names -> ElementProfiles] :
          /\ nms = NmsOf(prof)
          /\ api = ElementApiOf(prof)
          /\ persistent = {d \in Names : prof[d].persistent}
    /\ Start

Init == InitUpdate \/ InitElements

\* ---------------------------------------------------------- specifications
NextUpdate ==
    \/ GetDevices \/ ApiGetDevices \/ WriteEtcHosts \/ Check
    \/ CreateDevice \/ CreateDone \/ DeleteDevice \/ DeleteDone
    \/ LoadDevices \/ NoLoadDevices
    \/ UpdateIgnoring \/ UpdateDevice \/ UpdateDeviceUnchanged
    \/ GetDeviceInterfaces \/ GetDeviceInterfacesNone
    \/ UpdateDeviceInterface \/ InterfaceUnchanged
    \/ SyncInterfacesReturn \/ MainReturns
    \/ Raise \/ SendTraceback

NextElements ==
    \/ GetElements \/ ApiGetElements \/ CheckElements
    \/ CreateElement \/ CreateElementsDone \/ DeleteElement \/ DeleteElementsDone
    \/ ElementIgnoring \/ UpdateElement \/ UpdateElementUnchanged
    \/ ElementNoInterfaces \/ GetElementInterfaces \/ GetElementInterfacesNone
    \/ UpdateElementInterface \/ ElementInterfaceUnchanged

Next == NextUpdate \/ NextElements

\* One run of either script.
Spec == Init /\ [][Next]_vars

\* update_librenms run again and again, each run after one that returned.
InitTwice == InitUpdateWith(AllDeviceProfiles)

NextTwice == NextUpdate \/ Rerun

SpecTwice == InitTwice /\ [][NextTwice]_vars


\* ------------------------------------------- sync_interfaces on its own
\* The inputs of the interface rules, drawn widely: sync_interfaces is
\* entered for device 1, the only device, which both inventories hold with
\* agreeing flags, so that main() is at its call of sync_interfaces.
IfNames == {"eth0", "eth1"}
Roles == {"uplink", "access"}
Tags == {"uplink", "librenms_alarm_disable", "librenms_alarm_enable"}

\* compiled regular expressions, each the set of strings it matches:
\* "uplink" and "access" for the roles; "eth0" and ".*" for the names
RoleRegexes == {{"uplink"}, {"access"}}
NameRegexes == {{"eth0"}, {"", "eth0", "eth1"}}

RegexLists(regexes) == UNION {[1..n -> regexes] : n \in 0..MaxRegex}

ApiInterfaces ==
    [tags : SUBSET Tags, has_role : {FALSE}, role : {""}]
        \cup [tags : SUBSET {"uplink", "librenms_alarm_disable"},
              has_role : {TRUE}, role : Roles]

PlainInterface == [tags |-> {}, has_role |-> FALSE, role |-> ""]

\* api_device['interfaces']: no key, the key eth0, the keys eth0 and eth1,
\* or the empty string as a key
DeviceInterfaceDicts ==
    {NoInterfaces}
        \cup {[n \in {"eth0"} |-> a] : a \in ApiInterfaces}
        \cup {[n \in {"eth0", "eth1"} |-> IF n = "eth0" THEN a ELSE PlainInterface] :
                 a \in {x \in ApiInterfaces : ~x.has_role /\ x.tags \subseteq {"uplink"}}}
        \cup {[n \in {""} |-> [PlainInterface EXCEPT !.tags = {"uplink"}]]}

\* api_elements[hostname]['interfaces']: no tags are read
ElementInterfaceDicts ==
    {NoInterfaces}
        \cup {[n \in {"eth0"} |-> a] : a \in {x \in ApiInterfaces : x.tags = {}}}

\* the ports LibreNMS holds for the device: one port, or a second one, eth1
WidePorts ==
    [ifname : IfNames, ifalias : {"", "eth0"}, ifdescr : IfNames, ignore : BIT]

Port1 == [ifname |-> "eth1", ifalias |-> "", ifdescr |-> "eth1", ignore |-> 0]

DevicePortLists ==
    {<<p>> : p \in WidePorts}
        \cup {<<p, Port1>> : p \in {x \in WidePorts : x.ifalias = ""}}

\* the dict of get_element_interfaces is keyed by interface name
ElementPortLists ==
    {<<p>> : p \in {x \in WidePorts : x.ifalias = "" /\ x.ifdescr = x.ifname}}
        \cup {<<Port0(ign), Port1>> : ign \in BIT}

OnlyDevice1(ports) ==
    [d \in Names |->
        IF d = 1 THEN [present |-> TRUE, ignore |-> 0, ports |-> ports]
                 ELSE [present |-> FALSE, ignore |-> 0, ports |-> <<>>]]

\* main() has read the inventories, found nothing to create or delete and
\* no flag to set on device 1: it calls sync_interfaces for it.
AtSyncInterfaces ==
    /\ persistent = {}
    /\ librenms_devices = LibrenmsInventory
    /\ api_devices = api
    /\ create_in_librenms = <<>>
    /\ delete_in_librenms = <<>>
    /\ librenms_interfaces = <<>>
    /\ pc = "get_interfaces"
    /\ i = 1
    /\ j = 1
    /\ tracebacks = 0
    /\ run = 1

InitIfUpdate ==
    /\ script = UPDATE_LIBRENMS
    /\ roles_enabled \in RegexLists(RoleRegexes)
    /\ interfaces_disabled \in RegexLists(NameRegexes)
    /\ \E ports \in DevicePortLists : nms = OnlyDevice1(ports)
    /\ \E alarm \in BOOLEAN, ifs \in DeviceInterfaceDicts :
          api = [d \in {1} |-> [enabled |-> TRUE, monitor_librenms |-> TRUE,
                                alarm_interfaces |-> alarm, interfaces |-> ifs]]
    /\ calls = <<Call("get_devices", 0, 0, -1), Call("api_get_devices", 0, 0, -1),
                 Call("write_etc_hosts_file", 0, 0, -1)>>
    /\ AtSyncInterfaces

InitIfElements ==
    /\ script = SYNC_ELEMENTS
    /\ roles_enabled \in RegexLists(RoleRegexes)
    /\ interfaces_disabled \in RegexLists(NameRegexes)
    /\ \E ports \in ElementPortLists : nms = OnlyDevice1(ports)
    /\ \E ifs \in ElementInterfaceDicts :
          api = [d \in {1} |-> [active |-> TRUE, has_monitor |-> FALSE,
                                monitor_librenms |-> FALSE,
                                has_interfaces |-> TRUE, interfaces |-> ifs]]
    /\ calls = <<Call("get_elements", 0, 0, -1), Call("api_get_elements", 0, 0, -1),
                 Call("write_etc_hosts_file", 0, 0, -1)>>
    /\ AtSyncInterfaces

InitIf == InitIfUpdate \/ InitIfElements

NextIf ==
    \/ GetDeviceInterfaces \/ GetDeviceInterfacesNone
    \/ UpdateDeviceInterface \/ InterfaceUnchanged
    \/ GetElementInterfaces \/ GetElementInterfacesNone
    \/ UpdateElementInterface \/ ElementInterfaceUnchanged
    \/ SyncInterfacesReturn \/ MainReturns
    \/ Raise \/ SendTraceback

\* sync_interfaces of either script, from its call to the end of the run.
SpecIf == InitIf /\ [][NextIf]_vars


\* ------------------------------------------------------------- properties
Returned == pc = "done"

\* main() is past its create and delete loops
PastDelete == pc \in {"load", "update", "get_interfaces", "interfaces", "done"}

Count(op, dev) == Cardinality(CallsOf(op, dev))

\* sync_interfaces was entered for device 1, got the interfaces from
\* LibreNMS and has returned
SyncInterfacesDone ==
    /\ librenms_interfaces # <<>>
    /\ pc = "done" \/ (pc = "update" /\ i > 1)

\* C1, as claimed: when main() of update_librenms has returned, create_device
\* was called exactly once for every device of the Device-API inventory that
\* is not in the LibreNMS inventory read at start, and for no device that is
\* in it.
C1_CreateEveryMissing ==
    (IsUpdate /\ Returned) =>
        /\ \A d \in DOMAIN api \ DOMAIN librenms_devices : Count("create_device", d) = 1
        /\ \A d \in DOMAIN librenms_devices : Count("create_device", d) = 0

\* C1, amended: create_device is called exactly once for every device of the
\* Device-API inventory with enabled and monitor_librenms true that is not in
\* the LibreNMS inventory read at start, once main() has returned; at no time
\* is it called for another device, or twice.
C1_CreateEnabledMissing ==
    IsUpdate =>
        /\ \A d \in Names :
              Count("create_device", d) > 0 =>
                  /\ Count("create_device", d) = 1
                  /\ d \in DOMAIN api /\ d \notin DOMAIN librenms_devices
                  /\ api[d].enabled /\ api[d].monitor_librenms
        /\ Returned =>
              \A d \in DOMAIN api \ DOMAIN librenms_devices :
                  (api[d].enabled /\ api[d].monitor_librenms) =>
                      Count("create_device", d) = 1

\* a run that returned after creating a device, and left a disabled device
\* of the Device-API out of LibreNMS
C1_Witness ==
    /\ IsUpdate /\ Returned
    /\ \E d \in Names : Count("create_device", d) = 1
    /\ \E d \in DOMAIN api \ DOMAIN librenms_devices :
          ~api[d].enabled /\ Count("create_device", d) = 0

\* C2: delete_device is called exactly once for each LibreNMS device that is
\* not in persistent_devices and is absent from the Device-API or has enabled
\* false there, once main() has returned; at no time is it called for another
\* device, so never for a persistent one.
C2_DeleteExactly ==
    IsUpdate =>
        /\ \A d \in Names :
              Count("delete_device", d) > 0 =>
                  /\ Count("delete_device", d) = 1
                  /\ d \in DOMAIN librenms_devices
                  /\ d \notin persistent
                  /\ (d \notin DOMAIN api \/ ~api[d].enabled)
        /\ Returned =>
              \A d \in DOMAIN librenms_devices \ persistent :
                  (d \notin DOMAIN api \/ ~api[d].enabled) =>
                      Count("delete_device", d) = 1

\* a run that deleted one device and kept a persistent one the Device-API
\* does not list
C2_Witness ==
    /\ IsUpdate /\ Returned
    /\ \E d \in Names : Count("delete_device", d) = 1
    /\ \E d \in DOMAIN librenms_devices \cap persistent :
          d \notin DOMAIN api /\ nms[d].present

\* the hostnames LibreNMS holds
Hostnames == {d \in Names : nms[d].present}

\* M of C3: the Element-API hostnames whose monitor_librenms is not False
MonitoredHostnames ==
    {d \in DOMAIN api : ~api[d].has_monitor \/ api[d].monitor_librenms}

\* C3: once sync_elements_to_librenms is past its create and delete calls,
\* none of which raised, LibreNMS holds the hostnames M union (P intersect
\* L); an element with monitor_librenms False is never created, and is
\* deleted when LibreNMS held it and it is not persistent.
C3_HostnamesAfterRun ==
    IsElements =>
        /\ \A d \in DOMAIN api \ MonitoredHostnames : Count("create_element", d) = 0
        /\ PastDelete =>
              /\ Hostnames =
                     MonitoredHostnames \cup (persistent \cap DOMAIN librenms_devices)
              /\ \A d \in (DOMAIN api \ MonitoredHostnames) \cap DOMAIN librenms_devices :
                     d \notin persistent => Count("delete_element", d) = 1

\* a run that created an element, kept a persistent one the Element-API does
\* not list, and deleted one whose monitor_librenms is False
C3_Witness ==
    /\ IsElements /\ Returned
    /\ \E d \in Names : Count("create_element", d) = 1
    /\ \E d \in DOMAIN api \ MonitoredHostnames :
          Count("delete_element", d) = 1 /\ ~nms[d].present

\* C4: for every device in both the LibreNMS inventory and the Device-API
\* inventory, update_device is called (once main() has returned: once) iff
\* (LibreNMS ignore == 0) differs from the Device-API enabled flag, and then
\* with ignore = 0 when enabled is true and 1 when it is false; no other
\* update_device call is made.
C4_UpdateIffDiffers ==
    IsUpdate =>
        /\ \A k \in CallsOp("update_device") :
              LET d == calls[k].dev
              IN  /\ d \in DOMAIN librenms_devices /\ d \in DOMAIN api
                  /\ (librenms_devices[d].ignore = 0) # api[d].enabled
                  /\ calls[k].ignore = IF api[d].enabled THEN 0 ELSE 1
                  /\ Count("update_device", d) = 1
        /\ Returned =>
              \A d \in DOMAIN librenms_devices \cap DOMAIN api :
                  ((librenms_devices[d].ignore = 0) # api[d].enabled) =>
                      Count("update_device", d) = 1

\* a run that set ignore = 1 on a disabled device and left a device whose
\* flags agree alone
C4_Witness ==
    /\ IsUpdate /\ Returned
    /\ \E k \in CallsOp("update_device") : calls[k].ignore = 1
    /\ \E d \in DOMAIN librenms_devices \cap DOMAIN api :
          (librenms_devices[d].ignore = 0) = api[d].enabled
              /\ Count("update_device", d) = 0

\* some interfaces_disabled regex matches the name
Denied(name) ==
    \E k \in 1..Len(interfaces_disabled) : name \in interfaces_disabled[k]

\* C5, as claimed: after sync_interfaces of update_librenms, every LibreNMS
\* interface of the device whose name matches an interfaces_disabled regex
\* has ignore = 1 in LibreNMS.
C5_DeniedByName ==
    (IsUpdate /\ SyncInterfacesDone) =>
        \A k \in DOMAIN nms[1].ports :
            Denied(nms[1].ports[k].ifname) => nms[1].ports[k].ignore = 1

\* the Device-API key of a LibreNMS interface, "" when it has none
ApiKey(port) ==
    LET keys == DOMAIN api[1].interfaces
    IN  IF port.ifname \in keys THEN port.ifname
        ELSE IF port.ifalias \in keys THEN port.ifalias
        ELSE IF port.ifdescr \in keys THEN port.ifdescr
        ELSE ""

\* C5, amended: after sync_interfaces of update_librenms, every LibreNMS
\* interface that is found in the Device-API (under its ifname, else its
\* ifalias, else its ifdescr, the key not empty) and whose Device-API key
\* matches an interfaces_disabled regex has ignore = 1 in LibreNMS, whatever
\* alarm_interfaces, the tags and the role are.
C5_DeniedByApiKey ==
    (IsUpdate /\ SyncInterfacesDone) =>
        \A k \in DOMAIN nms[1].ports :
            (ApiKey(nms[1].ports[k]) # "" /\ Denied(ApiKey(nms[1].ports[k])))
                => nms[1].ports[k].ignore = 1

\* sync_interfaces set ignore = 1 on an interface found under its ifalias,
\* on a device with alarm_interfaces true, against the uplink tag
C5_Witness ==
    /\ IsUpdate /\ SyncInterfacesDone
    /\ api[1].alarm_interfaces
    /\ \E k \in CallsOp("update_device_interface") :
          LET port == nms[1].ports[calls[k].port]
          IN  /\ calls[k].ignore = 1 /\ port.ignore = 1
              /\ ApiKey(port) = port.ifalias /\ ApiKey(port) # port.ifname
              /\ "uplink" \in api[1].interfaces[ApiKey(port)].tags
              /\ Denied(ApiKey(port))

\* C6: after sync_interfaces of update_librenms, every interface found in the
\* Device-API with no role and no deny-list match that carries the
\* alarm-disable tag has ignore = 1.
C6_DisableTagWins ==
    (IsUpdate /\ SyncInterfacesDone) =>
        \A k \in DOMAIN nms[1].ports :
            LET key == ApiKey(nms[1].ports[k])
            IN  (/\ key # ""
                 /\ ~api[1].interfaces[key].has_role
                 /\ ~Denied(key)
                 /\ "librenms_alarm_disable" \in api[1].interfaces[key].tags)
                    => nms[1].ports[k].ignore = 1

\* C7: after sync_interfaces of sync_elements_to_librenms, every interface
\* present in the Element-API whose role matches at least one roles_enabled
\* regex and whose name matches no interfaces_disabled regex has ignore = 0.
C7_RolesAllowList ==
    (IsElements /\ SyncInterfacesDone) =>
        \A k \in DOMAIN nms[1].ports :
            LET name == nms[1].ports[k].ifname
            IN  (/\ name \in DOMAIN api[1].interfaces
                 /\ api[1].interfaces[name].has_role
                 /\ \E r \in 1..Len(roles_enabled) :
                        api[1].interfaces[name].role \in roles_enabled[r]
                 /\ ~Denied(name))
                    => nms[1].ports[k].ignore = 0

\* the step in which a call raises, and every step after it
StopsAtRaise ==
    /\ pc' = "failed" => (calls' = calls /\ nms' = nms)
    /\ pc \in {"failed", "exited"} =>
          (calls' = calls /\ nms' = nms /\ pc' = "exited")

\* C8: in either script, once a call has raised no further call is issued,
\* LibreNMS stays as the calls issued before left it, and the script ends
\* after exactly one utils.send_traceback(); a run in which nothing raised
\* calls it never.
C8_StopsAtRaise ==
    /\ [][StopsAtRaise]_vars
    /\ [](pc = "exited" => tracebacks = 1)
    /\ [](pc # "exited" => tracebacks = 0)

\* a run that stopped after a device was deleted: the device stays deleted
C8_Witness ==
    /\ pc = "exited" /\ tracebacks = 1
    /\ \E k \in 1..Len(calls) :
          /\ calls[k].op \in {"delete_device", "delete_element"}
          /\ ~nms[calls[k].dev].present
    /\ \E d \in Names : ~nms[d].present /\ d \in DOMAIN api_devices
                          /\ d \notin DOMAIN librenms_devices

UpdateOps == {"update_device", "get_device_interfaces", "update_device_interface"}

\* C9: in a run of update_librenms all create_device calls precede all
\* delete_device calls, which precede all update calls, and no update_device,
\* get_device_interfaces or update_device_interface call is issued for a
\* device that delete_device was called for.
C9_NoUpdateAfterDelete ==
    IsUpdate =>
        \A a, b \in 1..Len(calls) :
            a < b =>
                /\ ~(calls[a].op = "delete_device" /\ calls[b].op = "create_device")
                /\ ~(calls[a].op \in UpdateOps
                        /\ calls[b].op \in {"create_device", "delete_device"})
                /\ ~(/\ calls[a].op = "delete_device"
                     /\ calls[b].op \in UpdateOps
                     /\ calls[a].dev = calls[b].dev)

\* C10: a run of update_librenms that follows a run in which every call
\* succeeded issues no create_device, delete_device, update_device or
\* update_device_interface call.
C10_SecondRunIdle ==
    run > 1 =>
        \A k \in 1..Len(calls) :
            calls[k].op \notin {"create_device", "delete_device", "update_device",
                                "update_device_interface"}

====
